---- MODULE Spec2Model ----
(***************************************************************************)
(* A model of the stock-ai analytics pipeline:                             *)
(*   analyzer/model.py     Model (regime labels, analog probability)       *)
(*   analyzer/patterns.py  PatternDetector (candlestick flags)             *)
(*   analyzer/features.py  build_features, _rsi, _wilder_ema               *)
(*                                                                         *)
(* Conventions.  Tables are sequences of rows, row 1 being pandas row 0.   *)
(* A Python None is the empty sequence <<>>, a value v is <<v>>.           *)
(* probabilities are integers in hundredths of a percent (5000 = 50.0),    *)
(* which is the precision round(x, 2) leaves.                              *)
(***************************************************************************)
EXTENDS Integers, Sequences, FiniteSets, TLC

VARIABLES
    caller_df,    \* the table the caller passed to the stage under study
    df,           \* Model.df: the table the Model owns
    hybrid_prob,  \* Model.hybrid_prob
    last,         \* the last call on the Model: its outcome and its locals
    pd_df,        \* PatternDetector.df: the bars and the flag columns added so far
    pd_calls,     \* how many single pattern methods have been called
    features      \* what build_features / _rsi gave back to the caller

vars == <<caller_df, df, hybrid_prob, last, pd_df, pd_calls, features>>

model_vars == <<df, hybrid_prob, last>>

pattern_vars == <<pd_df, pd_calls>>

\* nothing has been computed from the caller's table yet
NotComputed == [outcome |-> "pending", rows |-> <<>>]

FeaturesIdle == features = NotComputed

---------------------------------------------------------------------------
(* Bounds of the model *)

MaxRows == 3

MaxBars == 2

MaxCalls == 1

---------------------------------------------------------------------------
(* Generic helpers *)

None == <<>>

Some(v) == <<v>>

Max2(a, b) == IF a >= b THEN a ELSE b

Min2(a, b) == IF a <= b THEN a ELSE b

Abs(a) == IF a >= 0 THEN a ELSE -a

\* matches[mask]: the row labels of idx, in order, at which the boolean
\* column mask is true
RECURSIVE MaskFrom(_, _, _)
MaskFrom(idx, mask, k) ==
    IF k > Len(idx) THEN <<>>
    ELSE (IF mask[idx[k]] THEN <<idx[k]>> ELSE <<>>) \o MaskFrom(idx, mask, k + 1)

Mask(idx, mask) == MaskFrom(idx, mask, 1)

Range(s) == {s[i] : i \in 1..Len(s)}

\* s with x inserted before the first element greater than x
RECURSIVE InsertSorted(_, _)
InsertSorted(s, x) ==
    IF s = <<>> THEN <<x>>
    ELSE IF x < Head(s) THEN <<x>> \o s
    ELSE <<Head(s)>> \o InsertSorted(Tail(s), x)

RECURSIVE SortInts(_)
SortInts(s) == IF s = <<>> THEN <<>> ELSE InsertSorted(SortInts(Tail(s)), Head(s))

---------------------------------------------------------------------------
(* analyzer/model.py *)

Trends == {"up", "down"}

\* the priority list of hybrid_probability
patterns == <<"bullish_engulfing", "bearish_engulfing", "hammer", "shooting_star",
              "morning_star", "evening_star", "inside_bar", "outside_bar">>

\* every boolean pattern column detect_all adds
PatternColumns == Range(patterns) \cup {"doji"}

\* Model._momentum_state: read on the last row only
RsiBullishAbove == 55

RsiBearishBelow == 45

_momentum_state(rows) ==
    LET lastrow == rows[Len(rows)]
    IN  IF lastrow.rsi14 > RsiBullishAbove /\ lastrow.macd_hist > 0 THEN "bullish"
        ELSE IF lastrow.rsi14 < RsiBearishBelow /\ lastrow.macd_hist < 0 THEN "bearish"
        ELSE "neutral"

\* twice the pandas median of a column without missing values
Median2(col) ==
    LET s == SortInts(col)
        n == Len(s)
    IN  IF n % 2 = 1 THEN 2 * s[(n + 1) \div 2]
        ELSE s[n \div 2] + s[n \div 2 + 1]

\* Model._volatility_state: atr_today > median * 1.2, atr_today < median * 0.8,
\* with both sides multiplied by 20 (Median2 is twice the median)
_volatility_state(rows) ==
    LET atr_today == rows[Len(rows)].atr14
        median2 == Median2([i \in 1..Len(rows) |-> rows[i].atr14])
    IN  IF 20 * atr_today > 12 * median2 THEN "high"
        ELSE IF 20 * atr_today < 8 * median2 THEN "low"
        ELSE "normal"

\* round(100 * k / m, 2) in hundredths, half to even as numpy rounds
Round2(k, m) ==
    LET whole == (10000 * k) \div m
        rest == (10000 * k) % m
    IN  IF 2 * rest > m THEN whole + 1
        ELSE IF 2 * rest < m THEN whole
        ELSE IF whole % 2 = 0 THEN whole ELSE whole + 1

NoInformation == 5000

\* the for loop over patterns with its break: the first flag true on the last row
RECURSIVE ScanPatterns(_, _)
ScanPatterns(lastrow, k) ==
    IF k > Len(patterns) THEN None
    ELSE IF patterns[k] \in lastrow.flags THEN Some(patterns[k])
    ELSE ScanPatterns(lastrow, k + 1)

\* faulty variant: the loop without its break, so the last true flag wins
RECURSIVE ScanPatternsNoBreak(_, _, _)
ScanPatternsNoBreak(lastrow, k, found) ==
    IF k > Len(patterns) THEN found
    ELSE ScanPatternsNoBreak(lastrow, k + 1,
             IF patterns[k] \in lastrow.flags THEN patterns[k] ELSE found)

PrimaryPatternNoBreak(lastrow) == ScanPatternsNoBreak(lastrow, 1, "none")

PrimaryPattern(lastrow) ==
    LET found == ScanPatterns(lastrow, 1)
    IN  IF found = None THEN "none" ELSE found[1]

\* matches["bullish"].shift(-1).dropna(): the shift is positional within
\* matches, so entry j is the flag of the NEXT MATCHED row and the last
\* matched row gets NaN, which dropna removes
\* faulty variant: shift(-1, fill_value=False), which leaves nothing for dropna to remove
NextMovesFilled(rows, matches) ==
    [j \in 1..Len(matches) |->
        IF j < Len(matches) THEN rows[matches[j + 1]].bullish ELSE FALSE]

NextMoves(rows, matches) ==
    [j \in 1..(IF Len(matches) = 0 THEN 0 ELSE Len(matches) - 1) |->
        rows[matches[j + 1]].bullish]

\* lines 89-103: the four boolean-mask filters, in the code's order
FilterPattern(t, idx, primary_pattern) ==
    IF primary_pattern # "none"
    THEN Mask(idx, [r \in 1..Len(t.rows) |-> primary_pattern \in t.rows[r].flags])
    ELSE idx

\* faulty variant: the trend filter left out
FilterTrendMissing(t, idx, current_trend) == idx

FilterTrend(t, idx, current_trend) ==
    Mask(idx, [r \in 1..Len(t.rows) |-> t.rows[r].trend = current_trend])

FilterMomentum(t, idx, current_momentum) ==
    Mask(idx, [r \in 1..Len(t.rows) |-> t.momentum_state[r] = current_momentum])

FilterVolatility(t, idx, current_volatility) ==
    Mask(idx, [r \in 1..Len(t.rows) |-> t.volatility_state[r] = current_volatility])

\* the locals of one hybrid_probability call on table t (lines 57-109)
HybridLocals(t) ==
    LET n == Len(t.rows)
        lastrow == t.rows[n]
        primary_pattern == PrimaryPattern(lastrow)
        current_trend == lastrow.trend
        current_momentum == _momentum_state(t.rows)
        current_volatility == _volatility_state(t.rows)
        m1 == FilterPattern(t, [i \in 1..n |-> i], primary_pattern)
        m2 == FilterTrend(t, m1, current_trend)
        m3 == FilterMomentum(t, m2, current_momentum)
        matches == FilterVolatility(t, m3, current_volatility)
    IN  [primary_pattern |-> primary_pattern,
         current_trend |-> current_trend,
         current_momentum |-> current_momentum,
         current_volatility |-> current_volatility,
         matches |-> matches,
         next_moves |-> NextMoves(t.rows, matches)]

\* lines 111-118: the probability of the tallied outcomes
Probability(next_moves) ==
    LET k == Cardinality({j \in 1..Len(next_moves) : next_moves[j]})
    IN  Round2(k, Len(next_moves))

Call(op, outcome, value, locals, record) ==
    [op |-> op, outcome |-> outcome, value |-> value, locals |-> locals,
     record |-> record]

\* faulty variant: a genuine per-row series, row i labelled from rows 1..i
ClassifiedPerRow(t) ==
    [t EXCEPT !.has_states = TRUE,
              !.momentum_state =
                  [i \in 1..Len(t.rows) |-> _momentum_state(SubSeq(t.rows, 1, i))],
              !.volatility_state =
                  [i \in 1..Len(t.rows) |-> _volatility_state(SubSeq(t.rows, 1, i))]]

\* Model.classify_states: both labels are broadcast over every row of self.df
Classified(t) ==
    [t EXCEPT !.has_states = TRUE,
              !.momentum_state = [i \in 1..Len(t.rows) |-> _momentum_state(t.rows)],
              !.volatility_state = [i \in 1..Len(t.rows) |-> _volatility_state(t.rows)]]

\* how _momentum_state(df) ends on table t: df["rsi14"] is indexed before
\* .iloc[-1], and df["macd_hist"] only when the RSI test of an if succeeds
MomentumError(t) ==
    IF "rsi14" \notin t.columns THEN "KeyError"
    ELSE IF Len(t.rows) = 0 THEN "IndexError"
    ELSE IF /\ \/ t.rows[Len(t.rows)].rsi14 > RsiBullishAbove
               \/ t.rows[Len(t.rows)].rsi14 < RsiBearishBelow
            /\ "macd_hist" \notin t.columns
         THEN "KeyError"
    ELSE "ok"

\* how _volatility_state(df) ends on table t
VolatilityError(t) ==
    IF "atr14" \notin t.columns THEN "KeyError"
    ELSE IF Len(t.rows) = 0 THEN "IndexError"
    ELSE "ok"

\* Model.classify_states on table t: <<outcome, self.df afterwards>>; the
\* momentum_state column is assigned before _volatility_state is evaluated
ClassifyOutcome(t) ==
    IF MomentumError(t) # "ok" THEN <<MomentumError(t), t>>
    ELSE IF VolatilityError(t) # "ok"
         THEN <<VolatilityError(t),
                [t EXCEPT !.momentum_state =
                    [i \in 1..Len(t.rows) |-> _momentum_state(t.rows)]]>>
    ELSE <<"return", Classified(t)>>

classify_states ==
    /\ df' = ClassifyOutcome(df)[2]
    /\ last' = Call("classify_states", ClassifyOutcome(df)[1], None, None, None)
    /\ UNCHANGED <<hybrid_prob, caller_df, pattern_vars, features>>

\* faulty variant: hybrid_probability computing the label columns itself when
\* they are absent
HybridOutcomeSelfClassifying(t, hp) ==
    IF Len(t.rows) = 0 THEN <<"IndexError", None, hp, None>>
    ELSE LET loc == HybridLocals(Classified(t))
         IN  IF Len(loc.next_moves) = 0
             THEN <<"return", Some(NoInformation), hp, Some(loc)>>
             ELSE <<"return", Some(Probability(loc.next_moves)),
                    Some(Probability(loc.next_moves)), Some(loc)>>

\* the outcome of hybrid_probability on table t with self.hybrid_prob = hp:
\* <<outcome, returned value, new hybrid_prob, locals>>
HybridOutcome(t, hp) ==
    IF Len(t.rows) = 0 THEN <<"IndexError", None, hp, None>>
    ELSE IF "trend" \notin t.columns THEN <<"KeyError", None, hp, None>>
    ELSE IF MomentumError(t) # "ok" THEN <<MomentumError(t), None, hp, None>>
    ELSE IF VolatilityError(t) # "ok" THEN <<VolatilityError(t), None, hp, None>>
    ELSE IF ~t.has_states THEN <<"KeyError", None, hp, None>>
    ELSE IF "bullish" \notin t.columns THEN <<"KeyError", None, hp, None>>
    ELSE LET loc == HybridLocals(t)
         IN  IF Len(loc.next_moves) = 0
             THEN <<"return", Some(NoInformation), hp, Some(loc)>>
             ELSE <<"return", Some(Probability(loc.next_moves)),
                    Some(Probability(loc.next_moves)), Some(loc)>>

hybrid_probability ==
    LET o == HybridOutcome(df, hybrid_prob)
    IN  /\ last' = Call("hybrid_probability", o[1], o[2], o[4], None)
        /\ hybrid_prob' = o[3]
        /\ UNCHANGED <<df, caller_df, pattern_vars, features>>

\* Model.summary: classify_states, hybrid_probability, then the record, whose
\* probability is read back from self.hybrid_prob
SummaryOutcome(t, hp) ==
    LET c == ClassifyOutcome(t)
        o == HybridOutcome(c[2], hp)
    IN  IF c[1] # "return"
        THEN [df |-> c[2], hybrid_prob |-> hp,
              last |-> Call("summary", c[1], None, None, None)]
        ELSE IF o[1] # "return"
        THEN [df |-> c[2], hybrid_prob |-> o[3],
              last |-> Call("summary", o[1], None, None, None)]
        ELSE [df |-> c[2], hybrid_prob |-> o[3],
              last |-> Call("summary", "return", o[2], o[4],
                         Some([probability_next_bullish |-> o[3],
                               last_trend |-> c[2].rows[Len(c[2].rows)].trend,
                               last_momentum |-> _momentum_state(c[2].rows),
                               last_volatility |-> _volatility_state(c[2].rows)]))]

summary ==
    /\ df' = SummaryOutcome(df, hybrid_prob).df
    /\ hybrid_prob' = SummaryOutcome(df, hybrid_prob).hybrid_prob
    /\ last' = SummaryOutcome(df, hybrid_prob).last
    /\ UNCHANGED <<caller_df, pattern_vars, features>>

---------------------------------------------------------------------------
(* The tables a Model is constructed from *)

Row(trend, bullish, flags, rsi14, macd_hist, atr14) ==
    [trend |-> trend, bullish |-> bullish, flags |-> flags,
     rsi14 |-> rsi14, macd_hist |-> macd_hist, atr14 |-> atr14]

\* Model.__init__: a copy of the caller's table, re-indexed; hybrid_prob = None
ModelTable(columns, rows) ==
    [columns |-> columns, rows |-> rows, has_states |-> FALSE,
     momentum_state |-> <<>>, volatility_state |-> <<>>]

\* the columns the docstring of Model.__init__ asks for
ModelColumns ==
    {"trend", "bullish", "rsi14", "macd_hist", "atr14"} \cup PatternColumns

NewModelTable(rows) == ModelTable(ModelColumns, rows)

\* what PatternDetector can have produced: the two-bar flags need a previous
\* row and the three-bar flags two, and the flags that require a bullish
\* (bearish) bar are true on bullish (non-bullish) rows only
Realizable(rows) ==
    \A i \in 1..Len(rows) :
        LET f == rows[i].flags
        IN  /\ i = 1 => f \cap {"bullish_engulfing", "bearish_engulfing", "inside_bar",
                                 "outside_bar", "morning_star", "evening_star"} = {}
            /\ i = 2 => f \cap {"morning_star", "evening_star"} = {}
            /\ f \cap {"bullish_engulfing", "morning_star"} # {} => rows[i].bullish
            /\ f \cap {"bearish_engulfing", "evening_star"} # {} => ~rows[i].bullish
            /\ ~({"hammer", "shooting_star"} \subseteq f)

\* a table that varies in trend, outcome and pattern flags: one pattern column
\* p set on any rows, plus at most one more flag on the last row; the
\* indicator columns are neutral
PatternTable(n, trend, bullish, p, hist, extra) ==
    [i \in 1..n |->
        Row(trend[i], bullish[i],
            (IF hist[i] THEN {p} ELSE {}) \cup (IF i = n THEN extra ELSE {}),
            50, 0, 1)]

RsiValues == {40, 50, 60}

MacdValues == {-1, 0, 1}

AtrValues == {0, 4, 5, 7}

\* a table that varies in the indicator columns the regime labels read
RegimeTable(n, trend, rsi, macd, atr) ==
    [i \in 1..n |->
        Row(trend[i], i % 2 = 0, {},
            IF i = n THEN rsi ELSE 50, IF i = n THEN macd ELSE 0, atr[i])]

\* the flags a last row may show besides p
ExtraFlags == {"hammer", "inside_bar", "doji"}

\* no PatternDetector has been constructed
NoDetector == [rows |-> <<>>, cols |-> <<>>]

PatternIdle == pd_df = NoDetector /\ pd_calls = 0

NoCall == Call("__init__", "return", None, None, None)

\* the caller constructs Model(rows)
ModelWith(columns, rows) ==
    /\ caller_df = rows
    /\ df = ModelTable(columns, rows)
    /\ hybrid_prob = None
    /\ last = NoCall

ModelOf(rows) == ModelWith(ModelColumns, rows)

InitPatternTable ==
    \E n \in 0..MaxRows, p \in PatternColumns :
        \E extra \in {{}} \cup {{q} : q \in ExtraFlags} :
            \E trend \in [1..n -> Trends], bullish \in [1..n -> BOOLEAN],
               hist \in [1..n -> BOOLEAN] :
                LET rows == PatternTable(n, trend, bullish, p, hist, extra)
                IN  Realizable(rows) /\ ModelOf(rows)

InitRegimeTable ==
    \E n \in 1..MaxRows, rsi \in RsiValues, macd \in MacdValues :
        \E trend \in [1..n -> Trends], atr \in [1..n -> AtrValues] :
            ModelOf(RegimeTable(n, trend, rsi, macd, atr))

\* a table that lacks one of the columns Model reads; the values of an
\* absent column are never read
InitIncompleteTable ==
    \E n \in 0..MaxRows, rsi \in RsiValues :
        \E absent \in {"trend", "bullish", "rsi14", "macd_hist", "atr14"} :
            ModelWith(ModelColumns \ {absent},
                      RegimeTable(n, [i \in 1..n |-> "up"], rsi, 1, [i \in 1..n |-> 4]))

Init ==
    /\ InitPatternTable \/ InitRegimeTable \/ InitIncompleteTable
    /\ PatternIdle
    /\ FeaturesIdle

Next ==
    \/ classify_states
    \/ hybrid_probability
    \/ summary

Spec == Init /\ [][Next]_vars

---------------------------------------------------------------------------
(* analyzer/patterns.py *)

Bar(open, high, low, close) ==
    [open |-> open, high |-> high, low |-> low, close |-> close]

\* PatternDetector.__init__: a copy of the bars with the two helper columns
NewDetector(bars) ==
    [rows |-> [i \in 1..Len(bars) |->
                  [open |-> bars[i].open, high |-> bars[i].high,
                   low |-> bars[i].low, close |-> bars[i].close,
                   bullish |-> bars[i].close > bars[i].open,
                   bearish |-> bars[i].close < bars[i].open]],
     cols |-> <<>>]

\* df[name] = column
SetCol(d, name, column) ==
    [d EXCEPT !.cols = [c \in (DOMAIN d.cols) \cup {name} |->
                           IF c = name THEN column ELSE d.cols[c]]]

\* col.shift(k)[i] of a boolean column used in an & chain: the missing value
\* of the first k rows makes the conjunction False
ShiftBool(rows, col, k, i) == i > k /\ rows[i - k][col]

body(rows, i) == Abs(rows[i].close - rows[i].open)

upper_wick(rows, i) == rows[i].high - Max2(rows[i].open, rows[i].close)

lower_wick(rows, i) == Min2(rows[i].open, rows[i].close) - rows[i].low

BullishEngulfing(rows) ==
    [i \in 1..Len(rows) |->
        /\ ShiftBool(rows, "bearish", 1, i)
        /\ rows[i].bullish
        /\ i > 1 /\ rows[i].open < rows[i - 1].close
        /\ i > 1 /\ rows[i].close > rows[i - 1].open]

\* faulty variant: the method copied from bullish_engulfing without mirroring it
BearishEngulfingCopied(rows) == BullishEngulfing(rows)

BearishEngulfing(rows) ==
    [i \in 1..Len(rows) |->
        /\ ShiftBool(rows, "bullish", 1, i)
        /\ rows[i].bearish
        /\ i > 1 /\ rows[i].open > rows[i - 1].close
        /\ i > 1 /\ rows[i].close < rows[i - 1].open]

Hammer(rows) ==
    [i \in 1..Len(rows) |->
        /\ lower_wick(rows, i) >= 2 * body(rows, i)
        /\ upper_wick(rows, i) <= body(rows, i)
        /\ body(rows, i) > 0]

\* faulty variant: the method copied from hammer without mirroring it
ShootingStarCopied(rows) == Hammer(rows)

ShootingStar(rows) ==
    [i \in 1..Len(rows) |->
        /\ upper_wick(rows, i) >= 2 * body(rows, i)
        /\ lower_wick(rows, i) <= body(rows, i)
        /\ body(rows, i) > 0]

\* faulty variant: a zero range makes the row a doji whatever its body is
DojiZeroRangeTrue(rows) ==
    [i \in 1..Len(rows) |->
        LET range0 == rows[i].high - rows[i].low
        IN  IF range0 > 0 THEN 10 * body(rows, i) <= range0 ELSE TRUE]

\* body / full_range <= 0.1 with full_range.replace(0, 1); the quotient of a
\* non-negative body by a negative range is never above the threshold
Doji(rows) ==
    [i \in 1..Len(rows) |->
        LET range0 == rows[i].high - rows[i].low
            full_range == IF range0 = 0 THEN 1 ELSE range0
        IN  IF full_range > 0 THEN 10 * body(rows, i) <= full_range
            ELSE TRUE]

\* faulty variant: shift(1) back-filled, so the first row is compared with itself
InsideBarBackfilled(rows) ==
    [i \in 1..Len(rows) |->
        LET prev == IF i > 1 THEN i - 1 ELSE i
        IN  /\ rows[i].high <= rows[prev].high
            /\ rows[i].low >= rows[prev].low]

InsideBar(rows) ==
    [i \in 1..Len(rows) |->
        /\ i > 1 /\ rows[i].high <= rows[i - 1].high
        /\ i > 1 /\ rows[i].low >= rows[i - 1].low]

OutsideBar(rows) ==
    [i \in 1..Len(rows) |->
        /\ i > 1 /\ rows[i].high >= rows[i - 1].high
        /\ i > 1 /\ rows[i].low <= rows[i - 1].low]

\* body_prev1 <= body_prev2 * 0.5 and close > (open_prev2 + close_prev2) / 2,
\* both doubled
MorningStar(rows) ==
    [i \in 1..Len(rows) |->
        /\ ShiftBool(rows, "bearish", 2, i)
        /\ i > 2 /\ 2 * body(rows, i - 1) <= body(rows, i - 2)
        /\ rows[i].bullish
        /\ i > 2 /\ 2 * rows[i].close > rows[i - 2].open + rows[i - 2].close]

EveningStar(rows) ==
    [i \in 1..Len(rows) |->
        /\ ShiftBool(rows, "bullish", 2, i)
        /\ i > 2 /\ 2 * body(rows, i - 1) <= body(rows, i - 2)
        /\ rows[i].bearish
        /\ i > 2 /\ 2 * rows[i].close < rows[i - 2].open + rows[i - 2].close]

\* faulty variant: __init__ keeping the caller's table instead of a copy, so
\* the helper columns and the flags are written into the caller's table
MethodInPlace(name, column) ==
    /\ pd_calls < MaxCalls
    /\ pd_calls' = pd_calls + 1
    /\ pd_df' = SetCol(pd_df, name, column)
    /\ caller_df' = [i \in 1..Len(pd_df.rows) |-> pd_df.rows[i]]
    /\ UNCHANGED <<model_vars, features>>

\* the detector's table has the columns names
HasCols(names) == names \subseteq DOMAIN pd_df.cols

\* one pattern method: it writes its column into self.df
Method(name, column) ==
    /\ pd_calls < MaxCalls
    /\ pd_calls' = pd_calls + 1
    /\ pd_df' = SetCol(pd_df, name, column)
    /\ UNCHANGED <<caller_df, model_vars, features>>

bullish_engulfing == Method("bullish_engulfing", BullishEngulfing(pd_df.rows))

bearish_engulfing == Method("bearish_engulfing", BearishEngulfing(pd_df.rows))

hammer == Method("hammer", Hammer(pd_df.rows))

shooting_star == Method("shooting_star", ShootingStar(pd_df.rows))

doji == Method("doji", Doji(pd_df.rows))

inside_bar == Method("inside_bar", InsideBar(pd_df.rows))

outside_bar == Method("outside_bar", OutsideBar(pd_df.rows))

morning_star == Method("morning_star", MorningStar(pd_df.rows))

evening_star == Method("evening_star", EveningStar(pd_df.rows))

\* PatternDetector.detect_all: the nine methods in the code's order
DetectAll(d) ==
    LET d1 == SetCol(d, "bullish_engulfing", BullishEngulfing(d.rows))
        d2 == SetCol(d1, "bearish_engulfing", BearishEngulfing(d.rows))
        d3 == SetCol(d2, "hammer", Hammer(d.rows))
        d4 == SetCol(d3, "shooting_star", ShootingStar(d.rows))
        d5 == SetCol(d4, "doji", Doji(d.rows))
        d6 == SetCol(d5, "inside_bar", InsideBar(d.rows))
        d7 == SetCol(d6, "outside_bar", OutsideBar(d.rows))
        d8 == SetCol(d7, "morning_star", MorningStar(d.rows))
    IN  SetCol(d8, "evening_star", EveningStar(d.rows))

detect_all ==
    /\ pd_df' = DetectAll(pd_df)
    /\ UNCHANGED <<pd_calls, caller_df, model_vars, features>>

(* The bar tables a PatternDetector is constructed from *)

Prices == 1..4

WidePrices == 0..14

MidPrices == 6..8

\* a bar without wicks
BodyBar(o, c) == Bar(o, Max2(o, c), Min2(o, c), c)

\* bars of distinct shapes: small and large bearish and bullish bodies, a
\* zero-range bar, a doji, a hammer and a shooting star
Catalogue ==
    {Bar(3, 3, 2, 2), Bar(1, 4, 1, 4), Bar(2, 3, 2, 3), Bar(4, 4, 1, 1),
     Bar(2, 2, 2, 2), Bar(3, 4, 1, 3), Bar(3, 4, 1, 4), Bar(2, 4, 1, 1)}

ModelIdle ==
    /\ df = NewModelTable(<<>>)
    /\ hybrid_prob = None
    /\ last = NoCall

\* the caller constructs PatternDetector(bars)
DetectorOf(bars) ==
    /\ caller_df = bars
    /\ pd_df = NewDetector(bars)
    /\ pd_calls = 0

InitDetector ==
    \/ \E n \in 0..MaxBars :
         \E o \in [1..n -> Prices], c \in [1..n -> Prices] :
             DetectorOf([i \in 1..n |-> BodyBar(o[i], c[i])])
    \/ \E b1 \in Catalogue, b2 \in Catalogue, b3 \in Catalogue :
         DetectorOf(<<b1, b2, b3>>)
    \/ \E o \in MidPrices, c \in MidPrices, h \in WidePrices, l \in WidePrices :
         DetectorOf(<<Bar(o, h, l, c)>>)

InitPatterns ==
    /\ InitDetector
    /\ ModelIdle
    /\ FeaturesIdle

NextPatterns ==
    \/ bullish_engulfing
    \/ bearish_engulfing
    \/ hammer
    \/ shooting_star
    \/ doji
    \/ inside_bar
    \/ outside_bar
    \/ morning_star
    \/ evening_star
    \/ detect_all

SpecPatterns == InitPatterns /\ [][NextPatterns]_vars

---------------------------------------------------------------------------
(* analyzer/features.py *)
(* build_features is modelled at the level its trim reads: for every column *)
(* of the dropna subset, on which rows it holds a number and on which a     *)
(* missing value.  A column of numbers is kept exactly where a zero test    *)
(* reads it (close, true range, directional movement); of a Wilder average  *)
(* of non-negative numbers only "is it zero" is kept, which holds exactly   *)
(* when every observation so far is zero.                                   *)

\* the sequence f[lo], ..., f[hi]
RECURSIVE Column(_, _, _)
Column(f, lo, hi) ==
    IF lo > hi THEN <<>>
    ELSE IF lo = hi THEN <<f[lo]>>
    ELSE Column(f, lo, (lo + hi) \div 2) \o Column(f, (lo + hi) \div 2 + 1, hi)

\* f[lo] + ... + f[hi]
RECURSIVE SumRange(_, _, _)
SumRange(f, lo, hi) ==
    IF lo > hi THEN 0
    ELSE IF lo = hi THEN f[lo]
    ELSE SumRange(f, lo, (lo + hi) \div 2) + SumRange(f, (lo + hi) \div 2 + 1, hi)

\* how many of the rows lo..hi hold an observation (rows before the first do not exist)
Obs(obs, lo, hi) == Cardinality({j \in Max2(lo, 1)..hi : obs[j]})

\* s.rolling(n, min_periods).<stat>(): a number where the window holds enough observations
rolling_defined(obs, n, min_periods) ==
    Column([i \in 1..Len(obs) |-> Obs(obs, i - n + 1, i) >= min_periods], 1, Len(obs))

\* s.ewm(..., adjust=False, min_periods).mean(): a number once enough
\* observations have been seen, carried over later missing inputs
ewm_defined(obs, min_periods) ==
    Column([i \in 1..Len(obs) |-> Obs(obs, 1, i) >= min_periods], 1, Len(obs))

\* an exponential average of non-negative numbers is zero exactly when every
\* observation so far is zero
ewm_zero(x, obs) ==
    Column([i \in 1..Len(obs) |-> \A j \in 1..i : obs[j] => x[j] = 0], 1, Len(obs))

\* faulty variant: the moving average made to wait for its full window (min_periods=n)
_sma_full_window(obs, n) == rolling_defined(obs, n, n)

_sma(obs, n) == rolling_defined(obs, n, 1)

_ema(obs, n) == ewm_defined(obs, 1)

_wilder_ema(obs, n) == ewm_defined(obs, n)

\* c.pct_change(k) after the final replace of +-inf: a number where a row k
\* back exists and its close is not 0
pct_change(c, k) ==
    Column([i \in 1..Len(c) |-> i > k /\ c[i - k] # 0], 1, Len(c))

_true_range(out) ==
    Column([i \in 1..Len(out) |->
               IF i = 1 THEN out[i].high - out[i].low
               ELSE Max2(out[i].high - out[i].low,
                         Max2(Abs(out[i].high - out[i - 1].close),
                              Abs(out[i].low - out[i - 1].close)))],
           1, Len(out))

\* +DM and -DM: missing on the first row (diff), else the clipped move or 0
plus_dm(out) ==
    Column([i \in 1..Len(out) |->
               IF i = 1 THEN 0
               ELSE LET up_move == out[i].high - out[i - 1].high
                        down_move == out[i - 1].low - out[i].low
                    IN  IF up_move > down_move /\ up_move > 0 THEN up_move ELSE 0],
           1, Len(out))

minus_dm(out) ==
    Column([i \in 1..Len(out) |->
               IF i = 1 THEN 0
               ELSE LET up_move == out[i].high - out[i - 1].high
                        down_move == out[i - 1].low - out[i].low
                    IN  IF down_move > up_move /\ down_move > 0 THEN down_move ELSE 0],
           1, Len(out))

\* the rows on which adx holds a number
_adx_di(out, n) ==
    LET N == Len(out)
        all == [i \in 1..N |-> TRUE]
        moved == [i \in 1..N |-> i > 1]
        atr == _wilder_ema(all, n)
        atr_zero == ewm_zero(_true_range(out), all)
        wplus == _wilder_ema(moved, n)
        wplus_zero == ewm_zero(plus_dm(out), moved)
        wminus == _wilder_ema(moved, n)
        wminus_zero == ewm_zero(minus_dm(out), moved)
        \* _safe_div: missing where the denominator is missing or 0
        plus_di == [i \in 1..N |-> wplus[i] /\ atr[i] /\ ~atr_zero[i]]
        minus_di == [i \in 1..N |-> wminus[i] /\ atr[i] /\ ~atr_zero[i]]
        dx == Column([i \in 1..N |->
                         /\ plus_di[i] /\ minus_di[i]
                         /\ ~(wplus_zero[i] /\ wminus_zero[i])], 1, N)
    IN  _wilder_ema(dx, n)

\* the rows on which the relative Bollinger width holds a number
_bollinger(c, n) ==
    LET N == Len(c)
        all == [i \in 1..N |-> TRUE]
        mid == _sma(all, n)
        stdev == rolling_defined(all, n, n)
    IN  Column([i \in 1..N |->
                   /\ stdev[i] /\ mid[i]
                   /\ SumRange(c, Max2(i - n + 1, 1), i) # 0], 1, N)

\* out.sort_values("date"): row k of the result is the input row of rank k
sort_values(rows) ==
    LET n == Len(rows)
        rank == Column([i \in 1..n |->
                    1 + Cardinality({j \in 1..n :
                            \/ rows[j].date < rows[i].date
                            \/ rows[j].date = rows[i].date /\ j < i})], 1, n)
    IN  Column([k \in 1..n |-> rows[CHOOSE i \in 1..n : rank[i] = k]], 1, n)

RequiredColumns == {"date", "open", "high", "low", "close"}

\* the rows dropna(subset=[...]) keeps: every column of the subset holds a number
CoreDefined(out) ==
    LET N == Len(out)
        c == Column([i \in 1..N |-> out[i].close], 1, N)
        all == [i \in 1..N |-> TRUE]
        ret_1 == pct_change(c, 1)
        sma_20 == _sma(all, 20)
        sma_50 == _sma(all, 50)
        sma_200 == _sma(all, 200)
        ema_12 == _ema(all, 12)
        ema_26 == _ema(all, 26)
        macd_line == [i \in 1..N |-> ema_12[i] /\ ema_26[i]]
        rsi_14 == all
        atr_14 == _wilder_ema(all, 14)
        adx_14 == _adx_di(out, 14)
        bb_mid_20 == _sma(all, 20)
        bb_width_20 == _bollinger(c, 20)
        stdev_10 == rolling_defined(ret_1, 10, 10)
    IN  Column([i \in 1..N |->
                   /\ ret_1[i] /\ sma_20[i] /\ sma_50[i] /\ sma_200[i]
                   /\ ema_12[i] /\ ema_26[i] /\ macd_line[i] /\ rsi_14[i]
                   /\ atr_14[i] /\ adx_14[i] /\ bb_mid_20[i] /\ bb_width_20[i]
                   /\ stdev_10[i]], 1, N)

\* the kept rows of out[lo..hi], each with the position it had in out
RECURSIVE Kept(_, _, _, _)
Kept(out, keep, lo, hi) ==
    IF lo > hi THEN <<>>
    ELSE IF lo = hi
    THEN (IF keep[lo] THEN <<[src |-> lo, date |-> out[lo].date, close |-> out[lo].close]>>
          ELSE <<>>)
    ELSE Kept(out, keep, lo, (lo + hi) \div 2) \o Kept(out, keep, (lo + hi) \div 2 + 1, hi)

BuildFeatures(input) ==
    IF ~(RequiredColumns \subseteq input.columns)
    THEN [outcome |-> "ValueError", rows |-> <<>>]
    ELSE LET out == sort_values(input.rows)
         IN  [outcome |-> "return",
              rows |-> Kept(out, CoreDefined(out), 1, Len(out))]

build_features ==
    /\ features = NotComputed
    /\ features' = BuildFeatures(caller_df)
    /\ UNCHANGED <<caller_df, model_vars, pattern_vars>>

(* The bar tables build_features is called on *)

MaxShortLen == 40

LongLen == 250

FeatureBar(date, open, high, low, close) ==
    [date |-> date, open |-> open, high |-> high, low |-> low, close |-> close]

\* bar t of a price series of the given kind
ShapeBar(kind, t) ==
    CASE kind = "rising" -> FeatureBar(t, 10 + t, 12 + t, 9 + t, 11 + t)
      [] kind = "falling" -> FeatureBar(t, 400 - t, 401 - t, 398 - t, 399 - t)
      [] kind = "zigzag" -> FeatureBar(t, 20 + 2 * (t % 3), 22 + 2 * (t % 3),
                                       18 + 2 * (t % 3), 19 + 2 * (t % 3) + 2 * (t % 2))
      [] kind = "constant" -> FeatureBar(t, 5, 5, 5, 5)
      [] kind = "sideways" -> FeatureBar(t, 5, 6, 4, 5)

Shapes == {"rising", "falling", "zigzag", "constant", "sideways"}

\* n bars of a kind; bar z (if any) closes at 0; given oldest or newest first
FeatureRows(kind, n, z, newest_first) ==
    [k \in 1..n |->
        LET t == IF newest_first THEN n + 1 - k ELSE k
            b == ShapeBar(kind, t)
        IN  IF t = z THEN [b EXCEPT !.close = 0, !.low = 0] ELSE b]

FeatureLens == (0..MaxShortLen) \cup (LongLen..(LongLen + 1))

ZeroAt(n) == IF n <= MaxShortLen THEN 0..n ELSE {0, n \div 2}

InitFeatures ==
    /\ \E kind \in Shapes, n \in FeatureLens :
         \E z \in ZeroAt(n), newest_first \in BOOLEAN :
            \E columns \in {RequiredColumns, RequiredColumns \ {"close"}} :
                /\ newest_first => z = 0
                /\ columns # RequiredColumns => n <= 1
                /\ caller_df = [columns |-> columns,
                                rows |-> FeatureRows(kind, n, z, newest_first)]
    /\ features = NotComputed
    /\ ModelIdle
    /\ PatternIdle

NextFeatures == build_features

SpecFeatures == InitFeatures /\ [][NextFeatures]_vars

(* _rsi, with its Wilder averages computed exactly.  An average is the    *)
(* fraction <<numerator, denominator>>; both averages of one row share the *)
(* denominator n^(observations - 1).                                       *)

RECURSIVE Power(_, _)
Power(b, e) == IF e = 0 THEN 1 ELSE b * Power(b, e - 1)

\* the numerator of s.ewm(alpha=1/n, adjust=False).mean() on row i, for a
\* series x whose first observation is on row 2 (a diff):
\*   y[2] = x[2],  y[i] = ((n - 1) * y[i-1] + x[i]) / n
RECURSIVE WilderNumerator(_, _, _)
WilderNumerator(x, n, i) ==
    IF i = 2 THEN x[2]
    ELSE (n - 1) * WilderNumerator(x, n, i - 1) + x[i] * Power(n, i - 3)

\* _wilder_ema of a diff-based series: missing until n observations were seen
_wilder_ema_value(x, n) ==
    [i \in 1..Len(x) |->
        IF i - 1 >= n THEN Some(WilderNumerator(x, n, i)) ELSE None]

\* _safe_div(num, den) of two averages with a common denominator: missing
\* where either is missing or den is 0
_safe_div(num, den) ==
    [i \in 1..Len(num) |->
        IF num[i] = None \/ den[i] = None THEN None
        ELSE IF den[i][1] = 0 THEN None
        ELSE Some(<<num[i][1], den[i][1]>>)]

RsiFill == <<50, 1>>

\* 100 - 100 / (1 + rs), then fillna(50.0)
RsiCell(avg_gain, avg_loss, rs) ==
    IF rs = None THEN RsiFill
    ELSE <<100 * rs[1][1], rs[1][1] + rs[1][2]>>

_rsi(close, n) ==
    LET N == Len(close)
        delta == [i \in 1..N |-> IF i = 1 THEN 0 ELSE close[i] - close[i - 1]]
        gain == [i \in 1..N |-> Max2(delta[i], 0)]
        loss == [i \in 1..N |-> -Min2(delta[i], 0)]
        avg_gain == _wilder_ema_value(gain, n)
        avg_loss == _wilder_ema_value(loss, n)
        rs == _safe_div(avg_gain, avg_loss)
    IN  [i \in 1..N |-> RsiCell(avg_gain[i], avg_loss[i], rs[i])]

MaxRsiLen == 4

MaxClose == 4

\* the period _rsi is run with (build_features passes 14)
RsiPeriod == 2

rsi ==
    /\ features = NotComputed
    /\ features' = [outcome |-> "return", rows |-> _rsi(caller_df, RsiPeriod)]
    /\ UNCHANGED <<caller_df, model_vars, pattern_vars>>

InitRsi ==
    /\ \E n \in 0..MaxRsiLen : caller_df \in [1..n -> 1..MaxClose]
    /\ features = NotComputed
    /\ ModelIdle
    /\ PatternIdle

NextRsi == rsi

SpecRsi == InitRsi /\ [][NextRsi]_vars

---------------------------------------------------------------------------
(* The callers of the three stages: main.py's run_analysis, which chains     *)
(* them on one table, and a client that hands a table to one stage and calls *)
(* that stage's operations in any order.                                     *)

\* the caller does not run build_features on this table
NotRequested == [outcome |-> "none", rows |-> <<>>]

InitStages ==
    \/ /\ InitPatternTable \/ InitRegimeTable \/ InitIncompleteTable
       /\ PatternIdle
       /\ features = NotRequested
    \/ /\ InitDetector
       /\ ModelIdle
       /\ features = NotRequested
    \/ InitFeatures

ModelStage == features = NotRequested /\ PatternIdle

PatternStage == features = NotRequested /\ ModelIdle

\* every column build_features adds to its copy of the table
FeatureColumns ==
    {"ret_1", "ret_5", "ret_10", "ret_21", "sma_5", "sma_20", "sma_50", "sma_200",
     "ema_12", "ema_26", "ema_50", "macd_line", "macd_signal", "macd_hist",
     "rsi_14", "tr", "atr_14", "adx_14", "di_plus_14", "di_minus_14",
     "bb_mid_20", "bb_up_20_2", "bb_lo_20_2", "bb_width_20", "stdev_20",
     "stdev_10", "bb_width_pct_252", "vol_ma20", "vol_ratio", "vol_spike_flag",
     "body_pct", "upper_wick_pct", "lower_wick_pct", "day_of_week", "month"}

\* the bars of the table build_features returned: the kept rows of the sorted
\* input, their prices unchanged
FeatureBars ==
    LET out == sort_values(caller_df.rows)
    IN  [k \in 1..Len(features.rows) |->
            Bar(out[features.rows[k].src].open, out[features.rows[k].src].high,
                out[features.rows[k].src].low, out[features.rows[k].src].close)]

\* the columns of the table detect_all returns in run_analysis
PipelineColumns ==
    caller_df.columns \cup FeatureColumns \cup {"bullish", "bearish"}
        \cup PatternColumns

\* the rows of that table, as far as Model reads them: the values of the
\* indicator columns build_features added are not tracked
PipelineRows ==
    [i \in 1..Len(pd_df.rows) |->
        [bullish |-> pd_df.rows[i].bullish,
         flags |-> {c \in DOMAIN pd_df.cols : pd_df.cols[c][i]}]]

\* main.py line 22: df = PatternDetector(df).detect_all(), on the table
\* build_features returned
detect_patterns ==
    /\ features.outcome = "return"
    /\ PatternIdle
    /\ ModelIdle
    /\ pd_df' = DetectAll(NewDetector(FeatureBars))
    /\ UNCHANGED <<pd_calls, caller_df, model_vars, features>>

\* main.py lines 26-27: model = Model(df); model.summary(), on the table
\* detect_all returned
run_model ==
    /\ features.outcome = "return"
    /\ HasCols(PatternColumns)
    /\ ModelIdle
    /\ LET o == SummaryOutcome(ModelTable(PipelineColumns, PipelineRows), None)
       IN  /\ df' = o.df
           /\ hybrid_prob' = o.hybrid_prob
           /\ last' = o.last
    /\ UNCHANGED <<caller_df, pattern_vars, features>>

\* main.py run_analysis, after load_csv
run_analysis ==
    \/ build_features
    \/ detect_patterns
    \/ run_model

NextStages ==
    \/ ModelStage /\ classify_states
    \/ ModelStage /\ hybrid_probability
    \/ ModelStage /\ summary
    \/ PatternStage /\ NextPatterns
    \/ run_analysis

SpecStages == InitStages /\ [][NextStages]_vars

---------------------------------------------------------------------------
(* Claims about Model (checked under Spec) *)

Returned(op) == last.op = op /\ last.outcome = "return"

HybridRan == last.locals # None

\* the rows the spec's step 3 selects, as a set
MatchSet(t, loc) ==
    {r \in 1..Len(t.rows) :
        /\ t.rows[r].trend = t.rows[Len(t.rows)].trend
        /\ t.momentum_state[r] = loc.current_momentum
        /\ t.volatility_state[r] = loc.current_volatility
        /\ loc.primary_pattern # "none" => loc.primary_pattern \in t.rows[r].flags}

\* the matched rows that have a following row in the table
Contributing(t, loc) == MatchSet(t, loc) \ {Len(t.rows)}

\* C1 (as claimed): with m >= 1 matched rows other than the final row, of which
\* k have a bullish row right after them in the full table, hybrid_probability
\* returns round(100*k/m, 2).
C1_NextRowOfTable ==
    Returned("hybrid_probability") =>
        LET H == Contributing(df, last.locals[1])
            k == Cardinality({r \in H : df.rows[r + 1].bullish})
        IN  H # {} => last.value = Some(Round2(k, Cardinality(H)))

\* C2: hybrid_probability returns exactly 50.0 whenever the match set is empty
\* or holds only the final row of the table.
C2_NoContributorGivesFifty ==
    Returned("hybrid_probability") =>
        (Contributing(df, last.locals[1]) = {} => last.value = Some(NoInformation))

C2_Witness ==
    /\ Returned("hybrid_probability")
    /\ Len(df.rows) >= 2
    /\ Contributing(df, last.locals[1]) = {}
    /\ last.value = Some(NoInformation)

\* C3 (as claimed): for every non-empty table the record summary() returns has
\* probability_next_bullish equal to the value hybrid_probability returned, a
\* number in [0,100], never None.
C3_SummaryProbabilityIsNumber ==
    Returned("summary") =>
        /\ last.record[1].probability_next_bullish # None
        /\ last.record[1].probability_next_bullish = last.value
        /\ last.value[1] \in 0..10000

\* C4: the primary pattern is the earliest entry of the priority list whose
\* flag is true on the last row, and "none" exactly when none of the eight is
\* true there; doji is never the primary pattern.
C4_PrimaryIsEarliestTrue ==
    HybridRan =>
        LET pp == last.locals[1].primary_pattern
            f == df.rows[Len(df.rows)].flags
        IN  /\ pp = "none" <=> f \cap Range(patterns) = {}
            /\ pp # "doji"
            /\ pp # "none" =>
                  \E k \in 1..Len(patterns) :
                      /\ pp = patterns[k]
                      /\ pp \in f
                      /\ \A j \in 1..(k - 1) : patterns[j] \notin f

C4_Witness ==
    /\ HybridRan
    /\ last.locals[1].primary_pattern = "hammer"
    /\ {"hammer", "outside_bar"} \subseteq df.rows[Len(df.rows)].flags

\* C5: the candidate match set is exactly the rows whose trend, momentum_state
\* and volatility_state equal the current ones and, only when the primary
\* pattern is not "none", whose primary-pattern flag is true.
C5_MatchSetExact ==
    HybridRan =>
        LET m == last.locals[1].matches
        IN  /\ Range(m) = MatchSet(df, last.locals[1])
            /\ \A i, j \in 1..Len(m) : i < j => m[i] < m[j]

C5_Witness ==
    /\ HybridRan
    /\ last.locals[1].primary_pattern = "none"
    /\ \E r \in Range(last.locals[1].matches) :
          r < Len(df.rows) /\ df.rows[r].flags # {}
    /\ \E r \in 1..Len(df.rows) : r \notin Range(last.locals[1].matches)

\* C15: after classify_states every row carries the same momentum_state and
\* the same volatility_state, those computed for the latest row; so in
\* hybrid_probability the momentum and volatility filters remove no row and
\* the match set is the one of the trend and primary-pattern filters alone.
C15_BroadcastLabels ==
    /\ df.has_states =>
          \A i \in 1..Len(df.rows) :
              /\ df.momentum_state[i] = _momentum_state(df.rows)
              /\ df.volatility_state[i] = _volatility_state(df.rows)
    /\ HybridRan =>
          LET loc == last.locals[1]
          IN  Range(loc.matches) =
                  {r \in 1..Len(df.rows) :
                      /\ df.rows[r].trend = df.rows[Len(df.rows)].trend
                      /\ loc.primary_pattern # "none" =>
                            loc.primary_pattern \in df.rows[r].flags}

\* a non-neutral regime on the last row, matched by earlier rows whose own
\* indicators are neutral
C15_Witness ==
    /\ HybridRan
    /\ last.locals[1].current_momentum = "bullish"
    /\ last.locals[1].current_volatility = "high"
    /\ Len(last.locals[1].matches) >= 2
    /\ df.rows[1].rsi14 <= RsiBullishAbove

\* C16 (as claimed): volatility_state is "high" exactly when latest ATR14 /
\* median ATR14 > 1.2, "low" exactly when that ratio < 0.8 and "normal"
\* otherwise, also when the ratio is undefined because the median is 0.
C16_VolatilityByRatio ==
    (df.has_states /\ Len(df.rows) >= 1) =>
        LET atr_today == df.rows[Len(df.rows)].atr14
            median2 == Median2([i \in 1..Len(df.rows) |-> df.rows[i].atr14])
            label == df.volatility_state[Len(df.rows)]
        IN  IF median2 = 0 THEN label = "normal"
            ELSE /\ label = "high" <=> 20 * atr_today > 12 * median2
                 /\ label = "low" <=> 20 * atr_today < 8 * median2
                 /\ label \in {"high", "low", "normal"}

\* the record summary() gives on a Model freshly constructed from rows
FreshSummary(rows) ==
    LET t == Classified(NewModelTable(rows))
        loc == HybridLocals(t)
    IN  [probability_next_bullish |->
             IF Len(loc.next_moves) = 0 THEN None
             ELSE Some(Probability(loc.next_moves)),
         last_trend |-> rows[Len(rows)].trend,
         last_momentum |-> _momentum_state(rows),
         last_volatility |-> _volatility_state(rows)]

\* C17: in every sequence of calls on one Model, hybrid_probability produces a
\* value only if classify_states has run before it on that instance (on a
\* fresh Model it fails, the label columns being absent); summary() runs
\* classify_states before hybrid_probability, and every summary() call returns
\* the same record, the one a fresh instance would return.
C17_CallOrder ==
    /\ Returned("hybrid_probability") => df.has_states
    /\ (last.op = "hybrid_probability" /\ ~df.has_states /\ Len(df.rows) >= 1)
          => last.outcome = "KeyError" /\ last.value = None
    /\ Returned("summary") =>
          /\ df.has_states
          /\ HybridRan
          /\ last.record = Some(FreshSummary(caller_df))

\* hybrid_probability called on a Model that was never classified
C17_Witness ==
    /\ last.op = "hybrid_probability"
    /\ last.outcome = "KeyError"
    /\ Len(df.rows) >= 2
    /\ hybrid_prob = None

---------------------------------------------------------------------------
(* Claims about PatternDetector (checked under SpecPatterns) *)

\* C10: bullish_engulfing and bearish_engulfing are never both true on the
\* same row of the table detect_all returns.
C10_EngulfingExclusive ==
    HasCols({"bullish_engulfing", "bearish_engulfing"}) =>
        \A i \in 1..Len(pd_df.rows) :
            ~(pd_df.cols["bullish_engulfing"][i] /\ pd_df.cols["bearish_engulfing"][i])

C10_Witness ==
    /\ HasCols(PatternColumns)
    /\ \E i \in 1..Len(pd_df.rows) : pd_df.cols["bullish_engulfing"][i]
    /\ \E i \in 1..Len(pd_df.rows) : pd_df.rows[i].close = pd_df.rows[i].open

\* C11: hammer and shooting_star are never both true on a row whose body
\* |close - open| is greater than 0, whatever the bar is (a wick may be
\* negative when high/low do not bracket open/close).
C11_HammerStarExclusive ==
    HasCols({"hammer", "shooting_star"}) =>
        \A i \in 1..Len(pd_df.rows) :
            Abs(pd_df.rows[i].close - pd_df.rows[i].open) > 0 =>
                ~(pd_df.cols["hammer"][i] /\ pd_df.cols["shooting_star"][i])

\* a hammer whose high lies below its close (negative upper wick)
C11_Witness ==
    /\ HasCols({"hammer", "shooting_star"})
    /\ \E i \in 1..Len(pd_df.rows) :
          /\ pd_df.cols["hammer"][i]
          /\ pd_df.rows[i].high < pd_df.rows[i].close
          /\ Abs(pd_df.rows[i].close - pd_df.rows[i].open) > 0

LookbackOne == {"bullish_engulfing", "bearish_engulfing", "inside_bar", "outside_bar"}

LookbackTwo == {"morning_star", "evening_star"}

\* C13: rows without enough preceding rows get a false flag: on row 0 the
\* two-bar and three-bar flags are all false and on row 1 the three-bar flags
\* are false, whatever the bars are.
C13_LookbackRowsFalse ==
    \A name \in DOMAIN pd_df.cols :
        /\ name \in LookbackOne \cup LookbackTwo /\ Len(pd_df.rows) >= 1
              => ~pd_df.cols[name][1]
        /\ name \in LookbackTwo /\ Len(pd_df.rows) >= 2
              => ~pd_df.cols[name][2]

\* three bars with a morning star on the third, and a first row that is as
\* high and low as itself
C13_Witness ==
    /\ HasCols(LookbackOne \cup LookbackTwo)
    /\ Len(pd_df.rows) = 3
    /\ pd_df.cols["morning_star"][3]
    /\ \E i \in 2..3 : pd_df.cols["inside_bar"][i] \/ pd_df.cols["outside_bar"][i]

\* C14: doji is true on a row exactly when body / range' <= 0.1, range' being
\* high - low when that is non-zero and 1 otherwise; a zero-range bar is judged
\* by its body and is not a doji automatically.
C14_DojiByRatio ==
    HasCols({"doji"}) =>
        \A i \in 1..Len(pd_df.rows) :
            LET b == Abs(pd_df.rows[i].close - pd_df.rows[i].open)
                hl == pd_df.rows[i].high - pd_df.rows[i].low
                r == IF hl # 0 THEN hl ELSE 1
            IN  pd_df.cols["doji"][i] <=> (IF r > 0 THEN 10 * b <= r ELSE 10 * b >= r)

\* a zero-range bar with a body, which is not a doji
C14_Witness ==
    /\ HasCols({"doji"})
    /\ \E i \in 1..Len(pd_df.rows) :
          /\ pd_df.rows[i].high = pd_df.rows[i].low
          /\ pd_df.rows[i].close # pd_df.rows[i].open
          /\ ~pd_df.cols["doji"][i]

---------------------------------------------------------------------------
(* Claims about all three stages (checked under SpecStages) *)

\* C12: no stage mutates the table it is given: whatever build_features, the
\* PatternDetector methods and detect_all, or classify_states,
\* hybrid_probability and summary do, the caller's table keeps its columns,
\* rows and values.
\* (In run_analysis the detector is given the table build_features returned
\* and the Model the table detect_all returned.)
C12_InputNeverMutated ==
    [][/\ caller_df' = caller_df
       /\ features.outcome = "return" => features' = features
       /\ (df' # df \/ last' # last) => pd_df' = pd_df]_vars

\* run_analysis at its end: the three stages have run one after the other,
\* the detector on a non-empty table, and the loaded table has its five columns
C12_Witness ==
    /\ features.outcome = "return"
    /\ HasCols(PatternColumns)
    /\ Len(pd_df.rows) >= 2
    /\ last.op = "summary"
    /\ caller_df.columns = RequiredColumns

---------------------------------------------------------------------------
(* Claims about build_features (checked under SpecFeatures) *)

FeaturesReturned == features.outcome = "return"

\* C6 (as claimed): build_features never returns an empty table; when the
\* trim would remove every row the condition is raised as an error.
C6_NeverSilentlyEmpty ==
    FeaturesReturned => Len(features.rows) > 0

\* C7 (as claimed): the rows build_features returns are a contiguous suffix of
\* the date-sorted input, in order: only leading rows are removed.
C7_OnlyLeadingRowsRemoved ==
    FeaturesReturned =>
        \A k \in 1..Len(features.rows) :
            features.rows[k].src = Len(caller_df.rows) - Len(features.rows) + k

\* positive prices whose true range and directional movement are non-zero
\* somewhere in the first 15 rows, so that DX holds a number from row 15 on
WellFormed(rows) ==
    LET out == sort_values(rows)
        tr == _true_range(out)
        pdm == plus_dm(out)
        mdm == minus_dm(out)
    IN  /\ \A i \in 1..Len(out) : out[i].close > 0 /\ out[i].low > 0
        /\ \E j \in 1..15 : tr[j] > 0
        /\ \E j \in 2..15 : pdm[j] > 0 \/ mdm[j] > 0

LongWellFormed ==
    /\ FeaturesReturned
    /\ Len(caller_df.rows) >= 250
    /\ WellFormed(caller_df.rows)

\* C8 (as claimed): for a well-formed input of n >= 250 bars the output has
\* n minus about 200 rows, the warm-up of SMA200.
C8_TrimIsSma200Window ==
    LongWellFormed =>
        Len(features.rows) \in {Len(caller_df.rows) - 200, Len(caller_df.rows) - 199}

\* C8 (amended): for a well-formed input of n >= 250 bars the output is the
\* last n - 27 rows: the warm-up is that of ADX14 (14 observations of DX,
\* itself first defined on the 15th row); the moving averages accept partial
\* windows and trim nothing.
C8_TrimIsAdxWarmup ==
    LongWellFormed =>
        /\ Len(features.rows) = Len(caller_df.rows) - 27
        /\ \A k \in 1..Len(features.rows) : features.rows[k].src = 27 + k

C8_Witness ==
    /\ LongWellFormed
    /\ Len(features.rows) = Len(caller_df.rows) - 27
    /\ Len(features.rows) > 200

---------------------------------------------------------------------------
(* Claims about _rsi (checked under SpecRsi) *)

RsiReturned == features.outcome = "return"

StrictlyIncreasing(c) == \A i \in 2..Len(c) : c[i] > c[i - 1]

StrictlyDecreasing(c) == \A i \in 2..Len(c) : c[i] < c[i - 1]

\* the rows on which the Wilder averages hold a number
PastWarmup(c) == {i \in 1..Len(c) : i - 1 >= RsiPeriod}

\* C9 (as claimed): RSI lies in [0,100] on every row; on a strictly increasing
\* close series it is above 50 (towards 100) on the rows past the warm-up, and
\* on a strictly decreasing one below 50 (towards 0).
C9_RsiRangeAndDirection ==
    RsiReturned =>
        LET r == features.rows
        IN  /\ \A i \in 1..Len(r) : 0 <= r[i][1] /\ r[i][1] <= 100 * r[i][2]
            /\ StrictlyIncreasing(caller_df) =>
                  \A i \in PastWarmup(caller_df) : r[i][1] > 50 * r[i][2]
            /\ StrictlyDecreasing(caller_df) =>
                  \A i \in PastWarmup(caller_df) : r[i][1] < 50 * r[i][2]

====
